---- MODULE Spec2Model ----
(***************************************************************************)
(* The concurrent directory walker of package file (ConcurrentWalker).     *)
(*                                                                         *)
(* One engine instance is driven by a caller (StartWalking, the cancel     *)
(* function, Wait, HadErrors).  Every successful StartWalking makes a      *)
(* fresh set of channels; they are kept here in functions indexed by the   *)
(* slot of the walk that made them, and the variable cur is what the       *)
(* fields w.workerSemaCh, w.pathInfoCh, w.errorCh and w.doneCh point to.   *)
(* The goroutines are one walk task per node, and one monitor and one      *)
(* consumer per walk.                                                      *)
(*                                                                         *)
(* The file system is an input: os.Lstat, DirEntry.Info, the excluders'    *)
(* Match and os.Open/ReadDir answer when they are called, and the answers  *)
(* are drawn then.  A node is a path; it gets its number when the listing  *)
(* of its parent directory reveals it.                                     *)
(*                                                                         *)
(* The caller starts a walk on an idle engine as often as calls allows and  *)
(* may call StartWalking on a busy engine and cancel at any time.          *)
(*                                                                         *)
(* Grain.  A step of a task is one operation on a channel together with    *)
(* the statements that follow it up to the next channel operation.  The    *)
(* loop of lines 219-223 and the deferred wg.Done() are part of the step   *)
(* that returns from workerReadDir: a goroutine that has been started and  *)
(* has not run yet does nothing another goroutine can see, and the         *)
(* counter cannot reach zero before the parent's own Done.                 *)
(*                                                                         *)
(* The lock file of package file (src/file/lock.go) is modelled in the     *)
(* second half: several processes call AcquireLockfile and Release on one  *)
(* path.  DuplicateOutputs of package concurrency                          *)
(* (src/concurrency/duplicate.go) follows: one producer, the fan-out       *)
(* goroutine and one consumer per output channel.  The three share         *)
(* nothing; each specification moves one of them and leaves the others as  *)
(* they were constructed.                                                  *)
(***************************************************************************)
EXTENDS Integers, Sequences, FiniteSets, TLC

MaxNodes == 3       \* paths the file system reveals to the walks alive
MaxWalks == 2       \* walks whose goroutines are alive at the same time
MaxRlimitCur == 1   \* largest RLIMIT_NOFILE soft limit the OS reports
ErrorChCap == 1     \* capacity of errorCh (100 in the source, line 111)
MaxWorkers == 1024  \* the cap on maxActiveWorkers
MaxProcs == 2       \* processes that use the lock file
MaxOuts == 2        \* output channels passed to DuplicateOutputs
MaxItems == 2       \* values the producer sends on the input channel
MaxChanCap == 1     \* largest buffer of the input and output channels

Nodes == 1..MaxNodes
Walks == 1..MaxWalks
BadPath == 0 - 1    \* a root argument that os.Lstat cannot stat
Procs == 1..MaxProcs    \* a process is its PID
Outs == 1..MaxOuts      \* outs, by position in the argument list

VARIABLES
    root,           \* w.root: node of the root path, 0 unset, BadPath
    walkFunc,       \* w.walkFunc: ordinal of the call that supplied it
    inProgress,     \* w.inProgress
    hadErrors,      \* w.hadErrors
    cur,            \* the slot whose channels the w.*Ch fields point to
    workerSemaCh,   \* [slot -> [held, cap]]  counting semaphore
    pathInfoCh,     \* [slot -> [buf, cap, closed]]
    errorCh,        \* [slot -> buffer of failing nodes]
    doneCh,         \* [slot -> "nil" | "open" | "closed"]
    wg,             \* w.wg: the WaitGroup counter
    ctxDone,        \* [slot -> BOOLEAN] the walk's context is cancelled
    pc,             \* [node -> position of the node's walk goroutine]
    parent,         \* [node -> parent node, 0 for a root]
    isDir,          \* [node -> entry.IsDir()]
    walkOf,         \* [node -> slot of the walk that found it, 0 if none]
    outcome,        \* [node -> what lines 174-200 decided]
    readRes,        \* [node -> result of workerReadDir]
    bound,          \* [node -> slot of the channel its pending op is bound to]
    monitor,        \* [slot -> position of the wg.Wait goroutine]
    consumer,       \* [slot -> position of process()]
    visited,        \* nodes passed to w.walkFunc since the last start
    visitErr,       \* w.walkFunc has returned a non-nil error since then
    errorSink,      \* nodes whose error line was written since then
    lastResult,     \* what the last StartWalking call returned
    calls,
                 \* StartWalking calls the caller still makes on an idle engine
    panic,          \* "none", or the runtime panic that killed the process
    passed,         \* StartWalking calls that are between line 82 and line 86
    hadErrorsBefore, \* w.hadErrors as the last assignment of line 91 found it
    matches         \* what w.dirExcluder and w.fileExcluder answer for a path

VARIABLES
    fileCreator,    \* the process that created the file at path, 0: no file
    fileContent,    \* the PID written in the file at path, 0: nothing
    lpc,            \* [process -> its position in AcquireLockfile]
    locks,          \* [process -> the pid fields of the Lockfiles it has]
    holds,          \* [process -> it acquired the lock and has not released]
    lockResult,     \* what the last call that returned has returned
    releases        \* [process -> Release calls on its own Lockfiles, up to 2]

VARIABLES
    in,             \* the input channel: [buf, cap, closed]
    produced,       \* values sent on in so far: they are 1, 2, ..., produced
    outs,           \* [position -> [buf, cap, closed]] the output channels
    ctxCancelled,   \* ctx.Done() of DuplicateOutputs is closed
    dup,            \* DuplicateOutputs: [at, data, i], i the position in outs
    received        \* [position -> values its consumer has received]

vars == <<root, walkFunc, inProgress, hadErrors, cur, workerSemaCh,
          pathInfoCh, errorCh, doneCh, wg, ctxDone, pc, parent, isDir,
          walkOf, outcome, readRes, bound, monitor, consumer, visited,
          visitErr, errorSink, lastResult, calls, panic, passed,
          hadErrorsBefore, matches,
          fileCreator, fileContent, lpc, locks, holds, lockResult,
          releases, in, produced, outs, ctxCancelled, dup, received>>

lockVars == <<fileCreator, fileContent, lpc, locks, holds, lockResult,
              releases>>

dupVars == <<in, produced, outs, ctxCancelled, dup, received>>

engine == <<root, walkFunc, inProgress, hadErrors, cur, workerSemaCh,
            pathInfoCh, errorCh, doneCh, wg>>

nodeVars == <<pc, parent, isDir, walkOf, outcome, readRes, bound>>

walkerVars == <<engine, nodeVars, ctxDone, monitor, consumer, visited,
                visitErr, errorSink, lastResult, calls, panic, passed,
                hadErrorsBefore, matches>>

Min(a, b) == IF a < b THEN a ELSE b

Alive == panic = "none"

\* Nodes the file system has revealed so far.
Known == {n \in Nodes : walkOf[n] # 0}

\* Goroutines of walk tasks that have not returned.
Live == {n \in Nodes : pc[n] \notin {"none", "done"}}

NilSema == [held |-> 0, cap |-> 0]
NilPathCh == [buf |-> <<>>, cap |-> 0, closed |-> FALSE]

\* An entry of matches for a path no excluder was asked about, and the entry
\* of a specification that keeps no record of the answers.
NoAnswer == [dir |-> "none", file |-> "none"]
Unrecorded == [dir |-> "off", file |-> "off"]

\* The engine NewConcurrentWalker returns: no walk yet, no goroutine.
ConstructedEngine ==
    /\ root = 0
    /\ walkFunc = 0
    /\ inProgress = FALSE
    /\ hadErrors = FALSE
    /\ cur = 0
    /\ workerSemaCh = [g \in Walks |-> NilSema]
    /\ pathInfoCh = [g \in Walks |-> NilPathCh]
    /\ errorCh = [g \in Walks |-> <<>>]
    /\ doneCh = [g \in Walks |-> "nil"]
    /\ wg = 0
    /\ ctxDone = [g \in Walks |-> FALSE]
    /\ pc = [n \in Nodes |-> "none"]
    /\ parent = [n \in Nodes |-> 0]
    /\ isDir = [n \in Nodes |-> FALSE]
    /\ walkOf = [n \in Nodes |-> 0]
    /\ outcome = [n \in Nodes |-> "none"]
    /\ readRes = [n \in Nodes |-> "none"]
    /\ bound = [n \in Nodes |-> 0]
    /\ monitor = [g \in Walks |-> "none"]
    /\ consumer = [g \in Walks |-> "none"]
    /\ visited = <<>>
    /\ visitErr = FALSE
    /\ errorSink = <<>>
    /\ lastResult = "none"
    /\ panic = "none"
    /\ passed = 0
    /\ hadErrorsBefore = FALSE

\* The engine as built; the answers of its excluders are not recorded.
Constructed == ConstructedEngine /\ matches = [n \in Nodes |-> Unrecorded]

\* No lock file at the path, no process has called anything.
Unlocked ==
    /\ fileCreator = 0
    /\ fileContent = 0
    /\ lpc = [p \in Procs |-> "idle"]
    /\ locks = [p \in Procs |-> {}]
    /\ holds = [p \in Procs |-> FALSE]
    /\ lockResult = "none"
    /\ releases = [p \in Procs |-> 0]

\* DuplicateOutputs has been started on channels of the capacities given
\* (make(chan T, n), 0 for an unbuffered channel); nothing was sent yet.
Started(inCap, outCap) ==
    /\ in = [buf |-> <<>>, cap |-> inCap, closed |-> FALSE]
    /\ produced = 0
    /\ outs = [o \in Outs |-> [buf |-> <<>>, cap |-> outCap[o],
                                closed |-> FALSE]]
    /\ ctxCancelled = FALSE
    /\ dup = [at |-> "select", data |-> 0, i |-> 0]
    /\ received = [o \in Outs |-> <<>>]

\* No fan-out in use: unbuffered channels, nothing moves.
NoFanout == Started(0, [o \in Outs |-> 0])

\* A caller that starts one walk.
Init == Constructed /\ Unlocked /\ NoFanout /\ calls = 1

\* A caller that uses the engine again: two StartWalking calls on an idle
\* engine.
ReuseInit == Constructed /\ Unlocked /\ NoFanout /\ calls = 2

\* One walk, with a record of what both excluders answer for every path
\* that a task has asked about.
DispatchInit ==
    /\ ConstructedEngine /\ matches = [n \in Nodes |-> NoAnswer]
    /\ Unlocked /\ NoFanout /\ calls = 1

\* Processes that use the lock file; no walk.
LockInit == Constructed /\ Unlocked /\ NoFanout /\ calls = 0

\* A fan-out on channels of any mix of capacities; no walk, no lock file.
DupInit ==
    /\ Constructed /\ Unlocked /\ calls = 0
    /\ \E inCap \in 0..MaxChanCap, outCap \in [Outs -> 0..MaxChanCap] :
           Started(inCap, outCap)

(***************************************************************************)
(* Storage.  A walk all of whose goroutines have returned leaves nothing   *)
(* that a later step can read except the fields of the engine: its slot    *)
(* and the numbers of its nodes are free to be used again.                 *)
(***************************************************************************)
Finished(g) ==
    /\ monitor[g] \in {"none", "done"}
    /\ consumer[g] \in {"none", "done"}
    /\ \A n \in Nodes : walkOf[n] = g => pc[n] = "done"

FreeSlots == {g \in Walks : Finished(g)}

\* Nodes still in use when the next walk starts.
Kept == {n \in Known : ~Finished(walkOf[n])}

\* The k smallest numbers outside the set used.
Fresh(used, k) ==
    {n \in Nodes \ used : Cardinality({m \in Nodes \ used : m < n}) < k}

(***************************************************************************)
(* Channel operations.  A goroutine evaluates the channel expression when  *)
(* it reaches the statement; if the operation cannot proceed it blocks on  *)
(* that very channel, whatever the engine's fields point to later.  Only   *)
(* StartWalking changes the fields, so the binding is recorded there.      *)
(***************************************************************************)
ChanOf(n) == IF bound[n] # 0 THEN bound[n] ELSE cur

PathInfoFull(g) == Len(pathInfoCh[g].buf) >= pathInfoCh[g].cap

ErrorChFull(g) == Len(errorCh[g]) >= ErrorChCap

SemaFull(g) == workerSemaCh[g].held >= workerSemaCh[g].cap

\* Tasks that may be blocked in a channel operation on the current channels.
Waiting ==
    {n \in Live : /\ bound[n] = 0
                  /\ cur # 0
                  /\ \/ pc[n] = "publish" /\ PathInfoFull(cur)
                     \/ pc[n] = "senderr" /\ ErrorChFull(cur)
                     \/ pc[n] = "readdir" /\ SemaFull(cur)}

(***************************************************************************)
(* StartWalking, lines 81-129.  statOk and rlimitOk are the results of     *)
(* os.Lstat and syscall.Getrlimit, rootIsDir and rlimitCur what they       *)
(* report.  blocked are the tasks of earlier walks that wait in a channel  *)
(* operation at this moment: they stay with the channel they wait on.      *)
(***************************************************************************)
\* Variant: lines 88-91 placed before the guard of line 82.
StartWalkingBusyLate ==
    /\ root' = BadPath
    /\ walkFunc' = walkFunc + 1
    /\ hadErrors' = FALSE
    /\ lastResult' = "errBusy"
    /\ UNCHANGED <<inProgress, cur, workerSemaCh, pathInfoCh, errorCh, doneCh,
                   wg, ctxDone, nodeVars, monitor, consumer, visited, visitErr,
                   errorSink, calls, panic, hadErrorsBefore, matches>>

\* lines 82-84: the call made while a walk is in progress
StartWalkingBusy ==
    /\ lastResult' = "errBusy"
    /\ UNCHANGED <<engine, ctxDone, nodeVars, monitor, consumer, visited,
                   visitErr, errorSink, calls, panic, hadErrorsBefore,
                   matches>>

\* Variant: process is started before os.Lstat and Getrlimit are called.
StartWalkingFailsLate(statOk) ==
    /\ lastResult' = IF statOk THEN "errRlimit" ELSE "errStat"
    /\ consumer' = [consumer EXCEPT ![1] = "loop"]
    /\ UNCHANGED <<cur, workerSemaCh, pathInfoCh, errorCh, doneCh, wg,
                   ctxDone, nodeVars, monitor, visited, visitErr, errorSink,
                   panic>>

\* lines 94-104: the returns on a failed os.Lstat or Getrlimit
StartWalkingFails(statOk) ==
    /\ lastResult' = IF statOk THEN "errRlimit" ELSE "errStat"
    /\ UNCHANGED <<cur, workerSemaCh, pathInfoCh, errorCh, doneCh, wg,
                   ctxDone, nodeVars, monitor, consumer, visited, visitErr,
                   errorSink, panic>>

\* Variant: the flag of the walk before is kept.
HadErrorsKept(before) == before

\* Line 91: w.hadErrors = false, whatever the flag was before.
HadErrorsAtStart(before) == FALSE

\* Lines 86-128: what a call does once it is past the guard.
StartWalkingIdle(statOk, rootIsDir, rlimitOk, rlimitCur, blocked) ==
    /\ calls > 0
    /\ calls' = calls - 1
    /\ statOk => Kept # Nodes
    /\ (statOk /\ rlimitOk) => FreeSlots # {}
    /\ walkFunc' = walkFunc + 1
    /\ inProgress' = TRUE
    /\ hadErrors' = HadErrorsAtStart(hadErrors)
    /\ hadErrorsBefore' = hadErrors
    /\ matches' = [n \in Nodes |->
                      IF statOk /\ rlimitOk /\ n \in Known \ Kept
                         /\ matches[n] # Unrecorded
                      THEN NoAnswer ELSE matches[n]]
    /\ root' = IF statOk THEN CHOOSE n \in Fresh(Kept, 1) : TRUE
                         ELSE BadPath
    /\ IF ~statOk \/ ~rlimitOk
       THEN /\ statOk \/ rlimitOk              \* Getrlimit not called
            /\ rootIsDir /\ rlimitCur = 1 /\ blocked = {}
            /\ StartWalkingFails(statOk)
       ELSE LET g == CHOOSE x \in FreeSlots :
                         \A y \in FreeSlots : x <= y
                r == CHOOSE n \in Fresh(Kept, 1) : TRUE
                gone == Known \ Kept
                maxActiveWorkers == Min(MaxWorkers, rlimitCur)
            IN  /\ blocked \subseteq Waiting
                /\ cur' = g
                /\ workerSemaCh' = [workerSemaCh EXCEPT
                       ![g] = [held |-> 0, cap |-> maxActiveWorkers]]
                /\ pathInfoCh' = [pathInfoCh EXCEPT
                       ![g] = [buf |-> <<>>, cap |-> maxActiveWorkers,
                               closed |-> FALSE]]
                /\ errorCh' = [errorCh EXCEPT ![g] = <<>>]
                /\ doneCh' = [doneCh EXCEPT ![g] = "open"]
                /\ wg' = 1
                /\ ctxDone' = [ctxDone EXCEPT ![g] = FALSE]
                /\ pc' = [n \in Nodes |->
                            IF n = r THEN "start"
                            ELSE IF n \in gone THEN "none"
                            ELSE pc[n]]
                /\ parent' = [n \in Nodes |->
                            IF n = r \/ n \in gone THEN 0
                            ELSE parent[n]]
                /\ isDir' = [n \in Nodes |->
                            IF n = r THEN rootIsDir
                            ELSE IF n \in gone THEN FALSE
                            ELSE isDir[n]]
                /\ walkOf' = [n \in Nodes |->
                            IF n = r THEN g
                            ELSE IF n \in gone THEN 0
                            ELSE walkOf[n]]
                /\ outcome' = [n \in Nodes |->
                            IF n = r \/ n \in gone THEN "none"
                            ELSE outcome[n]]
                /\ readRes' = [n \in Nodes |->
                            IF n = r \/ n \in gone THEN "none"
                            ELSE readRes[n]]
                /\ bound' = [n \in Nodes |->
                            IF n \in blocked THEN cur ELSE bound[n]]
                /\ monitor' = [monitor EXCEPT ![g] = "wait"]
                /\ consumer' = [consumer EXCEPT ![g] = "loop"]
                /\ visited' = <<>>
                /\ visitErr' = FALSE
                /\ errorSink' = <<>>
                /\ lastResult' = "ok"
                /\ UNCHANGED panic

StartWalking(statOk, rootIsDir, rlimitOk, rlimitCur, blocked) ==
    /\ Alive
    /\ IF inProgress
       THEN /\ statOk /\ rootIsDir /\ rlimitOk     \* nothing is looked at
            /\ rlimitCur = 1 /\ blocked = {}
            /\ StartWalkingBusy
       ELSE StartWalkingIdle(statOk, rootIsDir, rlimitOk, rlimitCur,
                             blocked)
    /\ UNCHANGED <<passed, lockVars, dupVars>>

(***************************************************************************)
(* walk, lines 171-210.  infoOk is the result of entry.Info(), match the   *)
(* result of Match(dir) of the excluder of the node's kind: "no", "yes"    *)
(* or "err".                                                               *)
(***************************************************************************)
MatchResults == {"no", "yes", "err"}

\* What lines 174-200 decide.
Decide(infoOk, match) ==
    IF ~infoOk THEN "infoFail"
    ELSE IF match = "err" THEN "matchErr"
    ELSE IF match = "yes" THEN "excluded"
    ELSE "accepted"

\* Variant: the exclusion result of lines 186-188 and 196-199 is not used.
AfterDecideNoExclusion(o) ==
    IF o \in {"infoFail", "matchErr"} THEN "senderr" ELSE "publish"

\* Variant: an excluded node is not published but is still descended into.
AfterDecideDescends(o) ==
    IF o \in {"infoFail", "matchErr"} THEN "senderr"
    ELSE IF o = "excluded" THEN "readdir"
    ELSE "publish"

\* Variant: the returns of lines 177, 184 and 194 are missing.
AfterDecideNoReturn(o) == IF o = "excluded" THEN "done" ELSE "publish"

\* Variant: an excluded node is reported on errorCh.
AfterDecideExcludedIsError(o) ==
    IF o \in {"infoFail", "matchErr", "excluded"} THEN "senderr"
    ELSE "publish"

\* Variant: a failing excluder excludes the node without a report.
AfterDecideSilentMatchErr(o) ==
    IF o = "infoFail" THEN "senderr"
    ELSE IF o \in {"excluded", "matchErr"} THEN "done"
    ELSE "publish"

\* Where walk goes once lines 174-200 decided o.
AfterDecide(o) ==
    IF o \in {"infoFail", "matchErr"} THEN "senderr"
    ELSE IF o = "excluded" THEN "done"
    ELSE "publish"

\* Where walk is after its send of line 202 (lines 208-210).
AfterPublish(n) == IF isDir[n] THEN "readdir" ELSE "done"

\* The deferred w.wg.Done() of line 172, run when the task reaches pc p.
WgDone(p) ==
    IF p # "done" THEN wg' = wg /\ panic' = panic
    ELSE IF wg = 0 THEN wg' = wg /\ panic' = "negative WaitGroup counter"
    ELSE wg' = wg - 1 /\ panic' = panic

\* Variant: a node is excluded when either excluder matches its path.
MatchEither(isDirectory, dirMatch, fileMatch) ==
    IF "yes" \in {dirMatch, fileMatch} THEN "yes"
    ELSE IF isDirectory THEN dirMatch ELSE fileMatch

\* Lines 181-200: w.dirExcluder.Match(dir) is called for a directory and
\* w.fileExcluder.Match(dir) for any other entry; dirMatch and fileMatch are
\* what the two excluders answer for the path.
Match(isDirectory, dirMatch, fileMatch) ==
    IF isDirectory THEN dirMatch ELSE fileMatch

\* The answers an excluder can give for the path of n.  Where the answers
\* are not recorded, the excluder that walk does not call for n is left at
\* "no": nothing in the state tells its answers apart.
Answers(n, forDirs) ==
    IF matches[n] = Unrecorded /\ isDir[n] # forDirs THEN {"no"}
    ELSE MatchResults

\* lines 174-200
Walk(n, infoOk, dirMatch, fileMatch) ==
    /\ Alive
    /\ pc[n] = "start"
    /\ parent[n] = 0 => infoOk        \* startDirEntry.Info returns nil
    /\ ~infoOk => (dirMatch = "no" /\ fileMatch = "no")  \* Match not called
    /\ LET match == Match(isDir[n], dirMatch, fileMatch)
       IN  /\ outcome' = [outcome EXCEPT ![n] = Decide(infoOk, match)]
           /\ pc' = [pc EXCEPT ![n] = AfterDecide(Decide(infoOk, match))]
           /\ WgDone(AfterDecide(Decide(infoOk, match)))
    /\ matches' = [matches EXCEPT
           ![n] = IF @ = Unrecorded \/ ~infoOk THEN @
                  ELSE [dir |-> dirMatch, file |-> fileMatch]]
    /\ UNCHANGED <<root, walkFunc, inProgress, hadErrors, cur, workerSemaCh,
                   pathInfoCh, errorCh, doneCh, ctxDone, parent, isDir,
                   walkOf, readRes, bound, monitor, consumer, visited,
                   visitErr, errorSink, lastResult, calls>>
    /\ UNCHANGED <<passed, hadErrorsBefore, lockVars, dupVars>>

\* Variant: a directory is listed without having been sent on pathInfoCh.
PublishFilesOnly(n) ==
    /\ Alive
    /\ pc[n] = "publish"
    /\ IF isDir[n]
       THEN UNCHANGED pathInfoCh
       ELSE /\ ~PathInfoFull(ChanOf(n))
            /\ pathInfoCh' = [pathInfoCh EXCEPT ![ChanOf(n)].buf = Append(@, n)]
    /\ pc' = [pc EXCEPT ![n] = AfterPublish(n)]
    /\ bound' = [bound EXCEPT ![n] = 0]
    /\ WgDone(AfterPublish(n))
    /\ UNCHANGED <<root, walkFunc, inProgress, hadErrors, cur, workerSemaCh,
                   errorCh, doneCh, ctxDone, parent, isDir, walkOf, outcome,
                   readRes, monitor, consumer, visited, visitErr, errorSink,
                   lastResult, calls>>
    /\ UNCHANGED <<passed, hadErrorsBefore, matches, lockVars, dupVars>>

\* line 202: w.pathInfoCh <- pathInfo{...}
Publish(n) ==
    /\ Alive
    /\ pc[n] = "publish"
    /\ IF pathInfoCh[ChanOf(n)].closed
       THEN /\ panic' = "send on closed channel"
            /\ UNCHANGED <<pathInfoCh, wg, pc, bound>>
       ELSE /\ ~PathInfoFull(ChanOf(n))
            /\ pathInfoCh' = [pathInfoCh EXCEPT
                                 ![ChanOf(n)].buf = Append(@, n)]
            /\ pc' = [pc EXCEPT ![n] = AfterPublish(n)]
            /\ bound' = [bound EXCEPT ![n] = 0]
            /\ WgDone(AfterPublish(n))
    /\ UNCHANGED <<root, walkFunc, inProgress, hadErrors, cur, workerSemaCh,
                   errorCh, doneCh, ctxDone, parent, isDir, walkOf, outcome,
                   readRes, monitor, consumer, visited, visitErr, errorSink,
                   lastResult, calls>>
    /\ UNCHANGED <<passed, hadErrorsBefore, matches, lockVars, dupVars>>

\* Variant: the send of line 252 does not wait for room.
AcquireUnbounded(n) ==
    /\ Alive
    /\ pc[n] = "readdir"
    /\ workerSemaCh' = [workerSemaCh EXCEPT ![ChanOf(n)].held = @ + 1]
    /\ pc' = [pc EXCEPT ![n] = "reading"]
    /\ bound' = [bound EXCEPT ![n] = ChanOf(n)]
    /\ UNCHANGED <<root, walkFunc, inProgress, hadErrors, cur, pathInfoCh,
                   errorCh, doneCh, wg, ctxDone, parent, isDir, walkOf,
                   outcome, readRes, monitor, consumer, visited, visitErr,
                   errorSink, lastResult, calls, panic>>
    /\ UNCHANGED <<passed, hadErrorsBefore, matches, lockVars, dupVars>>

\* workerReadDir, line 252: workerSemaCh <- struct{}{}
Acquire(n) ==
    /\ Alive
    /\ pc[n] = "readdir"
    /\ ~SemaFull(ChanOf(n))
    /\ workerSemaCh' = [workerSemaCh EXCEPT ![ChanOf(n)].held = @ + 1]
    /\ pc' = [pc EXCEPT ![n] = "reading"]
    /\ bound' = [bound EXCEPT ![n] = ChanOf(n)]
    /\ UNCHANGED <<root, walkFunc, inProgress, hadErrors, cur, pathInfoCh,
                   errorCh, doneCh, wg, ctxDone, parent, isDir, walkOf,
                   outcome, readRes, monitor, consumer, visited,
                   visitErr, errorSink, lastResult, calls, panic>>
    /\ UNCHANGED <<passed, hadErrorsBefore, matches, lockVars, dupVars>>

\* Where walk is after workerReadDir returned (lines 213-224).
AfterReadDir(ok) == IF ok THEN "done" ELSE "senderr"

\* Variant: the slot is given back only after a successful read.
DeferredOnSuccess(ok) == IF ok THEN 1 ELSE 0

\* workerReadDir, line 253: the slots the deferred receive gives back when
\* the function returns, at line 257, 262 or 266.
Deferred(ok) == 1

\* Variant: the loop of lines 219-223 stops one entry early.
SpawnedButLast(listing) ==
    {c \in listing : \E d \in listing : d > c}

\* The entries of the listing for which line 222 starts a goroutine.
Spawned(listing) == listing

(***************************************************************************)
(* workerReadDir, lines 253-266, and walk, lines 213-224: os.Open and      *)
(* ReadDir answer (ok), the listing holds k entries of which dirs are      *)
(* directories, the deferred receive gives the slot back, and walk adds    *)
(* every child to the WaitGroup and starts its goroutine.                  *)
(***************************************************************************)
ReadDir(n, ok, k, dirs) ==
    /\ Alive
    /\ pc[n] = "reading"
    /\ k <= Cardinality(Nodes \ Known)
    /\ dirs \subseteq Fresh(Known, k)
    /\ ~ok => k = 0
    /\ LET listing == Fresh(Known, k)
           started == Spawned(listing)
       IN  /\ workerSemaCh' = [workerSemaCh EXCEPT
                                ![bound[n]].held = @ - Deferred(ok)]
           /\ bound' = [bound EXCEPT ![n] = 0]
           /\ readRes' = [readRes EXCEPT ![n] = IF ok THEN "ok" ELSE "fail"]
           /\ pc' = [c \in Nodes |-> IF c = n THEN AfterReadDir(ok)
                                     ELSE IF c \in started THEN "start"
                                     ELSE IF c \in listing THEN "unstarted"
                                     ELSE pc[c]]
           /\ parent' = [c \in Nodes |-> IF c \in listing THEN n
                                         ELSE parent[c]]
           /\ isDir' = [c \in Nodes |-> IF c \in listing THEN c \in dirs
                                        ELSE isDir[c]]
           /\ walkOf' = [c \in Nodes |-> IF c \in listing THEN walkOf[n]
                                         ELSE walkOf[c]]
           /\ IF AfterReadDir(ok) = "done"
                 /\ wg + Cardinality(started) = 0
              THEN wg' = wg /\ panic' = "negative WaitGroup counter"
              ELSE /\ wg' = wg + Cardinality(started)
                              - (IF AfterReadDir(ok) = "done" THEN 1 ELSE 0)
                   /\ panic' = panic
    /\ UNCHANGED <<root, walkFunc, inProgress, hadErrors, cur, pathInfoCh,
                   errorCh, doneCh, ctxDone, outcome, monitor, consumer,
                   visited, visitErr, errorSink, lastResult, calls>>
    /\ UNCHANGED <<passed, hadErrorsBefore, matches, lockVars, dupVars>>

\* walk, lines 176-177, 183-184, 193-194 and 215-216: w.errorCh <- err; return
SendError(n) ==
    /\ Alive
    /\ pc[n] = "senderr"
    /\ ~ErrorChFull(ChanOf(n))
    /\ errorCh' = [errorCh EXCEPT ![ChanOf(n)] = Append(@, n)]
    /\ pc' = [pc EXCEPT ![n] = "done"]
    /\ bound' = [bound EXCEPT ![n] = 0]
    /\ WgDone("done")
    /\ UNCHANGED <<root, walkFunc, inProgress, hadErrors, cur, workerSemaCh,
                   pathInfoCh, doneCh, ctxDone, parent, isDir, walkOf,
                   outcome, readRes, monitor, consumer, visited,
                   visitErr, errorSink, lastResult, calls>>
    /\ UNCHANGED <<passed, hadErrorsBefore, matches, lockVars, dupVars>>

(***************************************************************************)
(* The monitor goroutine of lines 120-123.                                 *)
(***************************************************************************)
\* line 121: w.wg.Wait() returns
\* Variant: the monitor does not wait for the counter to reach zero.
WgWaitEarly(g) ==
    /\ Alive
    /\ monitor[g] = "wait"
    /\ wg <= 1
    /\ monitor' = [monitor EXCEPT ![g] = "close"]
    /\ UNCHANGED <<engine, ctxDone, nodeVars, consumer, visited,
                   visitErr, errorSink, lastResult, calls, panic>>
    /\ UNCHANGED <<passed, hadErrorsBefore, matches, lockVars, dupVars>>

WgWait(g) ==
    /\ Alive
    /\ monitor[g] = "wait"
    /\ wg = 0
    /\ monitor' = [monitor EXCEPT ![g] = "close"]
    /\ UNCHANGED <<engine, ctxDone, nodeVars, consumer, visited,
                   visitErr, errorSink, lastResult, calls, panic>>
    /\ UNCHANGED <<passed, hadErrorsBefore, matches, lockVars, dupVars>>

\* line 122: close(w.pathInfoCh)
ClosePathInfo(g) ==
    /\ Alive
    /\ monitor[g] = "close"
    /\ monitor' = [monitor EXCEPT ![g] = "done"]
    /\ IF pathInfoCh[cur].closed
       THEN /\ panic' = "close of closed channel"
            /\ UNCHANGED pathInfoCh
       ELSE /\ pathInfoCh' = [pathInfoCh EXCEPT ![cur].closed = TRUE]
            /\ panic' = panic
    /\ UNCHANGED <<root, walkFunc, inProgress, hadErrors, cur, workerSemaCh,
                   errorCh, doneCh, wg, ctxDone, nodeVars, consumer, visited,
                   visitErr, errorSink, lastResult, calls>>
    /\ UNCHANGED <<passed, hadErrorsBefore, matches, lockVars, dupVars>>

(***************************************************************************)
(* process, lines 137-162: one action per case of the select.  The visit   *)
(* callback runs inside the consumer goroutine and returns.                *)
(***************************************************************************)
\* Variant: the cancel case is taken only once all tasks have returned.
ProcessCancelAfterTasks(g) ==
    /\ Alive
    /\ consumer[g] = "loop"
    /\ ctxDone[g]
    /\ wg = 0
    /\ consumer' = [consumer EXCEPT ![g] = "signal"]
    /\ UNCHANGED <<engine, ctxDone, nodeVars, monitor, visited,
                   visitErr, errorSink, lastResult, calls, panic>>
    /\ UNCHANGED <<passed, hadErrorsBefore, matches, lockVars, dupVars>>

\* case <-ctx.Done()
ProcessCancel(g) ==
    /\ Alive
    /\ consumer[g] = "loop"
    /\ ctxDone[g]
    /\ consumer' = [consumer EXCEPT ![g] = "signal"]
    /\ UNCHANGED <<engine, ctxDone, nodeVars, monitor, visited,
                   visitErr, errorSink, lastResult, calls, panic>>
    /\ UNCHANGED <<passed, hadErrorsBefore, matches, lockVars, dupVars>>

\* Variant: a received path stays in the channel.
ProcessPathPeek(g, err) ==
    /\ Alive
    /\ consumer[g] = "loop"
    /\ pathInfoCh[cur].buf # <<>>
    /\ visited' = Append(visited, Head(pathInfoCh[cur].buf))
    /\ visitErr' = (visitErr \/ err)
    /\ UNCHANGED <<engine, ctxDone, nodeVars, monitor, consumer, errorSink,
                   lastResult, calls, panic>>
    /\ UNCHANGED <<passed, hadErrorsBefore, matches, lockVars, dupVars>>

\* Variant: an error returned by w.walkFunc is counted as an error of the
\* walk and ends the loop.
ProcessPathChecksError(g, err) ==
    /\ Alive
    /\ consumer[g] = "loop"
    /\ IF pathInfoCh[cur].buf # <<>>
       THEN /\ visited' = Append(visited, Head(pathInfoCh[cur].buf))
            /\ visitErr' = (visitErr \/ err)
            /\ pathInfoCh' = [pathInfoCh EXCEPT ![cur].buf = Tail(@)]
            /\ hadErrors' = (hadErrors \/ err)
            /\ consumer' = [consumer EXCEPT
                              ![g] = IF err THEN "signal" ELSE @]
       ELSE /\ pathInfoCh[cur].closed
            /\ ~err
            /\ consumer' = [consumer EXCEPT ![g] = "signal"]
            /\ UNCHANGED <<visited, visitErr, pathInfoCh, hadErrors>>
    /\ UNCHANGED <<root, walkFunc, inProgress, cur, workerSemaCh, errorCh,
                   doneCh, wg, ctxDone, nodeVars, monitor, errorSink,
                   lastResult, calls, panic>>
    /\ UNCHANGED <<passed, hadErrorsBefore, matches, lockVars, dupVars>>

\* case info, ok := <-w.pathInfoCh; err is what w.walkFunc returns at
\* line 150, where nothing receives it.
ProcessPath(g, err) ==
    /\ Alive
    /\ consumer[g] = "loop"
    /\ IF pathInfoCh[cur].buf # <<>>
       THEN /\ visited' = Append(visited, Head(pathInfoCh[cur].buf))
            /\ visitErr' = (visitErr \/ err)
            /\ pathInfoCh' = [pathInfoCh EXCEPT ![cur].buf = Tail(@)]
            /\ UNCHANGED consumer
       ELSE /\ pathInfoCh[cur].closed
            /\ ~err                              \* w.walkFunc is not called
            /\ consumer' = [consumer EXCEPT ![g] = "signal"]
            /\ UNCHANGED <<visited, visitErr, pathInfoCh>>
    /\ UNCHANGED <<root, walkFunc, inProgress, hadErrors, cur, workerSemaCh,
                   errorCh, doneCh, wg, ctxDone, nodeVars, monitor,
                   errorSink, lastResult, calls, panic>>
    /\ UNCHANGED <<passed, hadErrorsBefore, matches, lockVars, dupVars>>

\* Variant: the select of process has no case for errorCh.
ProcessErrorNever(g) ==
    /\ Alive
    /\ FALSE
    /\ UNCHANGED vars
    /\ UNCHANGED <<passed, hadErrorsBefore, matches, lockVars, dupVars>>

\* Variant: the first error ends the consumer loop.
ProcessErrorAborts(g) ==
    /\ Alive
    /\ consumer[g] = "loop"
    /\ errorCh[cur] # <<>>
    /\ hadErrors' = TRUE
    /\ errorSink' = Append(errorSink, Head(errorCh[cur]))
    /\ errorCh' = [errorCh EXCEPT ![cur] = Tail(@)]
    /\ consumer' = [consumer EXCEPT ![g] = "signal"]
    /\ UNCHANGED <<root, walkFunc, inProgress, cur, workerSemaCh, pathInfoCh,
                   doneCh, wg, ctxDone, nodeVars, monitor, visited, visitErr,
                   lastResult, calls, panic>>
    /\ UNCHANGED <<passed, hadErrorsBefore, matches, lockVars, dupVars>>

\* Variant: the error line is written but line 155 is missing.
ProcessErrorNoFlag(g) ==
    /\ Alive
    /\ consumer[g] = "loop"
    /\ errorCh[cur] # <<>>
    /\ errorSink' = Append(errorSink, Head(errorCh[cur]))
    /\ errorCh' = [errorCh EXCEPT ![cur] = Tail(@)]
    /\ UNCHANGED <<root, walkFunc, inProgress, hadErrors, cur, workerSemaCh,
                   pathInfoCh, doneCh, wg, ctxDone, nodeVars, monitor,
                   consumer, visited, visitErr, lastResult, calls, panic>>
    /\ UNCHANGED <<passed, hadErrorsBefore, matches, lockVars, dupVars>>

\* case err := <-w.errorCh
ProcessError(g) ==
    /\ Alive
    /\ consumer[g] = "loop"
    /\ errorCh[cur] # <<>>
    /\ hadErrors' = TRUE
    /\ errorSink' = Append(errorSink, Head(errorCh[cur]))
    /\ errorCh' = [errorCh EXCEPT ![cur] = Tail(@)]
    /\ UNCHANGED <<root, walkFunc, inProgress, cur, workerSemaCh, pathInfoCh,
                   doneCh, wg, ctxDone, nodeVars, monitor, consumer, visited,
                   visitErr, lastResult, calls, panic>>
    /\ UNCHANGED <<passed, hadErrorsBefore, matches, lockVars, dupVars>>

\* signalDone, lines 165-168
SignalDone(g) ==
    /\ Alive
    /\ consumer[g] = "signal"
    /\ consumer' = [consumer EXCEPT ![g] = "done"]
    /\ inProgress' = FALSE
    /\ IF doneCh[cur] = "closed"
       THEN /\ panic' = "close of closed channel"
            /\ UNCHANGED doneCh
       ELSE /\ doneCh' = [doneCh EXCEPT ![cur] = "closed"]
            /\ panic' = panic
    /\ UNCHANGED <<root, walkFunc, hadErrors, cur, workerSemaCh, pathInfoCh,
                   errorCh, wg, ctxDone, nodeVars, monitor, visited, visitErr,
                   errorSink, lastResult, calls>>
    /\ UNCHANGED <<passed, hadErrorsBefore, matches, lockVars, dupVars>>

(***************************************************************************)
(* The caller's side.                                                      *)
(***************************************************************************)
\* The cancel function StartWalking returned for the walk of slot g
\* (line 86); only the select of process reads the context.
Cancel(g) ==
    /\ Alive
    /\ consumer[g] = "loop"
    /\ ~ctxDone[g]
    /\ ctxDone' = [ctxDone EXCEPT ![g] = TRUE]
    /\ UNCHANGED <<engine, nodeVars, monitor, consumer, visited,
                   visitErr, errorSink, lastResult, calls, panic>>
    /\ UNCHANGED <<passed, hadErrorsBefore, matches, lockVars, dupVars>>

\* Wait, lines 132-134: <-w.doneCh returns.
WaitReturns == cur # 0 /\ doneCh[cur] = "closed"

\* HadErrors, lines 55-59
HadErrors == hadErrors

\* The listing of a directory names its directories first: a node's number
\* is only its name, and the goroutines of the children start together.
Task(n) ==
    \/ /\ pc[n] = "start"
       /\ \E infoOk \in BOOLEAN :
              \E dirMatch \in Answers(n, TRUE),
                 fileMatch \in Answers(n, FALSE) :
                  Walk(n, infoOk, dirMatch, fileMatch)
    \/ Publish(n)
    \/ Acquire(n)
    \/ /\ pc[n] = "reading"
       /\ \E ok \in BOOLEAN, k \in 0..Cardinality(Nodes \ Known) :
              \E j \in 0..k : ReadDir(n, ok, k, Fresh(Known, j))
    \/ SendError(n)

Monitor(g) == WgWait(g) \/ ClosePathInfo(g)

Consumer(g) ==
    \/ ProcessCancel(g)
    \/ \E err \in BOOLEAN : ProcessPath(g, err)
    \/ ProcessError(g)
    \/ SignalDone(g)

Caller ==
    \/ /\ inProgress
       /\ StartWalking(TRUE, TRUE, TRUE, 1, {})
    \/ /\ ~inProgress
       /\ \E statOk \in BOOLEAN, rootIsDir \in BOOLEAN, rlimitOk \in BOOLEAN :
              \E rlimitCur \in 1..MaxRlimitCur, blocked \in SUBSET Waiting :
                  StartWalking(statOk, rootIsDir, rlimitOk, rlimitCur,
                               blocked)
    \/ \E g \in Walks : Cancel(g)

Next ==
    \/ Caller
    \/ \E n \in Nodes : Task(n)
    \/ \E g \in Walks : Monitor(g)
    \/ \E g \in Walks : Consumer(g)

Spec == Init /\ [][Next]_vars

\* One walk of an engine whose two excluders are told apart.
DispatchSpec == DispatchInit /\ [][Next]_vars

\* The engine used for two walks, one after the other.
ReuseSpec == ReuseInit /\ [][Next]_vars

\* Lines 82-84 of a call that finds w.inProgress false: the field is read
\* without a lock, and the call has not yet reached line 90.
StartGuard ==
    /\ Alive
    /\ ~inProgress
    /\ passed < calls
    /\ passed' = passed + 1
    /\ UNCHANGED <<engine, nodeVars, ctxDone, monitor, consumer, visited,
                   visitErr, errorSink, lastResult, calls, panic,
                   hadErrorsBefore, matches>>
    /\ UNCHANGED <<lockVars, dupVars>>

\* Lines 86-128 of a call that passed the guard, whatever w.inProgress has
\* become since.
StartProceed(statOk, rootIsDir, rlimitOk, rlimitCur, blocked) ==
    /\ Alive
    /\ passed > 0
    /\ passed' = passed - 1
    /\ StartWalkingIdle(statOk, rootIsDir, rlimitOk, rlimitCur, blocked)
    /\ UNCHANGED <<lockVars, dupVars>>

\* Lines 82-84 of a call that finds w.inProgress true.
StartRefused ==
    /\ inProgress
    /\ passed < calls
    /\ StartWalking(TRUE, TRUE, TRUE, 1, {})

ConcurrentCaller ==
    \/ StartGuard
    \/ \E statOk \in BOOLEAN, rootIsDir \in BOOLEAN, rlimitOk \in BOOLEAN :
           \E rlimitCur \in 1..MaxRlimitCur, blocked \in SUBSET Waiting :
               StartProceed(statOk, rootIsDir, rlimitOk, rlimitCur, blocked)
    \/ StartRefused
    \/ \E g \in Walks : Cancel(g)

ConcurrentNext ==
    \/ ConcurrentCaller
    \/ \E n \in Nodes : Task(n)
    \/ \E g \in Walks : Monitor(g)
    \/ \E g \in Walks : Consumer(g)

\* Two goroutines that call StartWalking on the same engine.
ConcurrentSpec == ReuseInit /\ [][ConcurrentNext]_vars

(***************************************************************************)
(* Fairness.  The Go scheduler runs every goroutine that can run, and the  *)
(* visit callback returns.  The caller is under no obligation.             *)
(***************************************************************************)
\* Only the consumer goroutine is scheduled.
FairConsumer == Spec /\ \A g \in Walks : WF_vars(Consumer(g))

\* Every goroutine of the walk is scheduled.
FairSpec ==
    /\ Spec
    /\ \A n \in Nodes : WF_vars(Task(n))
    /\ \A g \in Walks : WF_vars(Monitor(g))
    /\ \A g \in Walks : WF_vars(Consumer(g))

(***************************************************************************)
(* The lock file (src/file/lock.go).  os.OpenFile with O_CREATE|O_EXCL,    *)
(* the write through the open descriptor, os.Open with the read, and       *)
(* os.Remove are each one step: the file system makes each of them atomic  *)
(* and another process can run between any two.  A process keeps every     *)
(* Lockfile it was given and may call Release on any of them between two   *)
(* calls of AcquireLockfile.                                               *)
(***************************************************************************)
\* lockFileGetPid, lines 113-130: 0 with an error when the file is gone or
\* holds no number.
lockFileGetPid == IF fileCreator = 0 THEN 0 ELSE fileContent

\* Line 35: the file is created when the path is free, else the call goes
\* on to read the owner's PID.
AcquireOpen(p) ==
    /\ lpc[p] = "idle"
    /\ UNCHANGED <<walkerVars, dupVars>>
    /\ IF fileCreator = 0
       THEN /\ fileCreator' = p
            /\ fileContent' = 0
            /\ lpc' = [lpc EXCEPT ![p] = "created"]
       ELSE /\ lpc' = [lpc EXCEPT ![p] = "exists"]
            /\ UNCHANGED <<fileCreator, fileContent>>
    /\ UNCHANGED <<locks, holds, lockResult, releases>>

\* Lines 39-46: the Lockfile of a failed call records the PID read.
AcquireFails(p) ==
    /\ lpc[p] = "exists"
    /\ UNCHANGED <<walkerVars, dupVars>>
    /\ lpc' = [lpc EXCEPT ![p] = "idle"]
    /\ locks' = [locks EXCEPT ![p] = @ \cup {lockFileGetPid}]
    /\ lockResult' = "ErrLockfileAcquired"
    /\ UNCHANGED <<fileCreator, fileContent, holds, releases>>

\* Lines 49-63.  The write goes to the file the process created, which is
\* the file at the path only as long as nobody removed it; a failed write
\* removes whatever the path names.
AcquireWrite(p, ok) ==
    /\ lpc[p] = "created"
    /\ UNCHANGED <<walkerVars, dupVars>>
    /\ lpc' = [lpc EXCEPT ![p] = "idle"]
    /\ IF ok
       THEN /\ fileContent' = IF fileCreator = p THEN p ELSE fileContent
            /\ locks' = [locks EXCEPT ![p] = @ \cup {p}]
            /\ holds' = [holds EXCEPT ![p] = TRUE]
            /\ lockResult' = "acquired"
            /\ UNCHANGED fileCreator
       ELSE /\ fileCreator' = 0
            /\ fileContent' = 0
            /\ lockResult' = "errWrite"
            /\ UNCHANGED <<locks, holds>>
    /\ UNCHANGED releases

\* Variant: Release removes the file whatever the Lockfile's pid field is.
ReleaseAnyOwner(p, h) ==
    /\ lpc[p] = "idle"
    /\ UNCHANGED <<walkerVars, dupVars>>
    /\ h \in locks[p]
    /\ fileCreator' = 0
    /\ fileContent' = 0
    /\ holds' = [holds EXCEPT ![p] = FALSE]
    /\ lockResult' = "nil"
    /\ releases' = [releases EXCEPT ![p] = Min(@ + 1, 2)]
    /\ UNCHANGED <<lpc, locks>>

\* Lines 87-98, on a Lockfile whose pid field is h.
Release(p, h) ==
    /\ lpc[p] = "idle"
    /\ UNCHANGED <<walkerVars, dupVars>>
    /\ h \in locks[p]
    /\ IF h # p
       THEN /\ lockResult' = "ErrLockfileNotOwned"
            /\ UNCHANGED <<fileCreator, fileContent, holds, releases>>
       ELSE /\ fileCreator' = 0
            /\ fileContent' = 0
            /\ holds' = [holds EXCEPT ![p] = FALSE]
            /\ lockResult' = "nil"
            /\ releases' = [releases EXCEPT ![p] = Min(@ + 1, 2)]
    /\ UNCHANGED <<lpc, locks>>

AcquireLockfile(p) ==
    \/ AcquireOpen(p)
    \/ AcquireFails(p)
    \/ \E ok \in BOOLEAN : AcquireWrite(p, ok)

LockNext ==
    \/ \E p \in Procs : AcquireLockfile(p)
    \/ \E p \in Procs : \E h \in locks[p] : Release(p, h)

LockSpec == LockInit /\ [][LockNext]_vars

(***************************************************************************)
(* DuplicateOutputs (src/concurrency/duplicate.go, lines 8-27).  A step is *)
(* one channel operation.  A send on an unbuffered channel and the receive *)
(* that takes the value are one step of both goroutines; a receive from a  *)
(* closed channel delivers what is buffered before it reports the close.   *)
(* The outs are distinct channels, and nobody else sends on or closes      *)
(* them.                                                                   *)
(***************************************************************************)
\* len(ch) == cap(ch) for a buffered channel; an unbuffered one never
\* buffers.
Full(ch) == Len(ch.buf) >= ch.cap

\* Lines 18-20: after the send to outs[i], the next out or the select again.
AfterSend(i) ==
    IF i < MaxOuts THEN [dup EXCEPT !.i = i + 1]
    ELSE [at |-> "select", data |-> 0, i |-> 0]

\* Lines 24-26: after close(outs[i]), the next out or the return.
AfterClose(i) ==
    IF i < MaxOuts THEN [dup EXCEPT !.i = i + 1]
    ELSE [at |-> "done", data |-> 0, i |-> 0]

\* The producer sends the next value on a buffered input channel.
Produce ==
    /\ produced < MaxItems
    /\ ~in.closed
    /\ in.cap > 0
    /\ ~Full(in)
    /\ UNCHANGED <<walkerVars, lockVars>>
    /\ in' = [in EXCEPT !.buf = Append(@, produced + 1)]
    /\ produced' = produced + 1
    /\ UNCHANGED <<outs, ctxCancelled, dup, received>>

\* The producer closes the input channel.
CloseIn ==
    /\ ~in.closed
    /\ UNCHANGED <<walkerVars, lockVars>>
    /\ in' = [in EXCEPT !.closed = TRUE]
    /\ UNCHANGED <<produced, outs, ctxCancelled, dup, received>>

\* The context is cancelled (the cancel function or the deadline).
CancelCtx ==
    /\ ~ctxCancelled
    /\ UNCHANGED <<walkerVars, lockVars>>
    /\ ctxCancelled' = TRUE
    /\ UNCHANGED <<in, produced, outs, dup, received>>

\* Lines 12-13: case <-ctx.Done(): break loop.
DupCancelled ==
    /\ dup.at = "select"
    /\ ctxCancelled
    /\ UNCHANGED <<walkerVars, lockVars>>
    /\ dup' = [at |-> "close", data |-> 0, i |-> 1]
    /\ UNCHANGED <<in, produced, outs, ctxCancelled, received>>

\* Lines 14-17 with a value: a buffered one, or the next of the producer
\* handed over on an unbuffered input channel.
DupReceive ==
    /\ dup.at = "select"
    /\ UNCHANGED <<walkerVars, lockVars>>
    /\ \/ /\ in.buf # <<>>
          /\ dup' = [at |-> "send", data |-> Head(in.buf), i |-> 1]
          /\ in' = [in EXCEPT !.buf = Tail(@)]
          /\ UNCHANGED produced
       \/ /\ in.cap = 0
          /\ ~in.closed
          /\ produced < MaxItems
          /\ dup' = [at |-> "send", data |-> produced + 1, i |-> 1]
          /\ produced' = produced + 1
          /\ UNCHANGED in
    /\ UNCHANGED <<outs, ctxCancelled, received>>

\* Lines 14-17 on the closed and drained input: !ok, break loop.
DupInputClosed ==
    /\ dup.at = "select"
    /\ in.closed
    /\ in.buf = <<>>
    /\ UNCHANGED <<walkerVars, lockVars>>
    /\ dup' = [at |-> "close", data |-> 0, i |-> 1]
    /\ UNCHANGED <<in, produced, outs, ctxCancelled, received>>

\* Variant: a value is dropped when the out's buffer is full.
DupSendOrDrop ==
    /\ dup.at = "send"
    /\ UNCHANGED <<walkerVars, lockVars>>
    /\ IF Full(outs[dup.i])
       THEN UNCHANGED outs
       ELSE outs' = [outs EXCEPT ![dup.i].buf = Append(@, dup.data)]
    /\ dup' = AfterSend(dup.i)
    /\ UNCHANGED <<in, produced, ctxCancelled, received>>

\* Line 19: out <- data blocks until the buffer has room or, on an
\* unbuffered out, until its consumer receives.
DupSend ==
    /\ dup.at = "send"
    /\ UNCHANGED <<walkerVars, lockVars>>
    /\ IF outs[dup.i].closed
       THEN /\ dup' = [at |-> "panic", data |-> 0, i |-> 0]
            /\ UNCHANGED <<outs, received>>
       ELSE /\ dup' = AfterSend(dup.i)
            /\ IF outs[dup.i].cap = 0
               THEN /\ received' = [received EXCEPT
                                        ![dup.i] = Append(@, dup.data)]
                    /\ UNCHANGED outs
               ELSE /\ ~Full(outs[dup.i])
                    /\ outs' = [outs EXCEPT
                                    ![dup.i].buf = Append(@, dup.data)]
                    /\ UNCHANGED received
    /\ UNCHANGED <<in, produced, ctxCancelled>>

\* Variant: the last out is left open.
DupCloseButLast ==
    /\ dup.at = "close"
    /\ UNCHANGED <<walkerVars, lockVars>>
    /\ IF dup.i < MaxOuts
       THEN outs' = [outs EXCEPT ![dup.i].closed = TRUE]
       ELSE UNCHANGED outs
    /\ dup' = AfterClose(dup.i)
    /\ UNCHANGED <<in, produced, ctxCancelled, received>>

\* Line 25: close(out); closing a closed channel panics.
DupClose ==
    /\ dup.at = "close"
    /\ UNCHANGED <<walkerVars, lockVars>>
    /\ outs' = [outs EXCEPT ![dup.i].closed = TRUE]
    /\ dup' = IF outs[dup.i].closed
              THEN [at |-> "panic", data |-> 0, i |-> 0]
              ELSE AfterClose(dup.i)
    /\ UNCHANGED <<in, produced, ctxCancelled, received>>

\* The consumer of outs[o] receives a buffered value.
Consume(o) ==
    /\ outs[o].buf # <<>>
    /\ UNCHANGED <<walkerVars, lockVars>>
    /\ received' = [received EXCEPT ![o] = Append(@, Head(outs[o].buf))]
    /\ outs' = [outs EXCEPT ![o].buf = Tail(@)]
    /\ UNCHANGED <<in, produced, ctxCancelled, dup>>

DuplicateOutputs ==
    \/ DupCancelled
    \/ DupReceive
    \/ DupInputClosed
    \/ DupSend
    \/ DupClose

DupNext ==
    \/ Produce
    \/ CloseIn
    \/ CancelCtx
    \/ DuplicateOutputs
    \/ \E o \in Outs : Consume(o)

DupSpec == DupInit /\ [][DupNext]_vars

\* The goroutine of DuplicateOutputs is scheduled and every consumer keeps
\* receiving; the producer and the owner of the context are under no
\* obligation.
FairDupSpec ==
    /\ DupSpec
    /\ WF_vars(DuplicateOutputs)
    /\ \A o \in Outs : WF_vars(Consume(o))

(***************************************************************************)
(* Properties.                                                             *)
(***************************************************************************)
\* How many times the visit callback was called with node n.
Count(seq, n) == Cardinality({i \in 1..Len(seq) : seq[i] = n})

\* The nodes the current walk has discovered, root included.
Tree == IF cur = 0 THEN {} ELSE {n \in Nodes : walkOf[n] = cur}

\* The root of the current walk: the node StartWalking handed to walk.
Roots == {n \in Tree : parent[n] = 0}

\* Nobody cancelled the current walk, nor an earlier walk that still has
\* goroutines.
Uncancelled == cur # 0 /\ \A g \in Walks : ~ctxDone[g]

\* Wait() has returned from a walk that nobody cancelled.
Completed == WaitReturns /\ Uncancelled

NodeErrors == {"infoFail", "matchErr"}

\* Nodes that produced an error of any of the three kinds.
Failing == {n \in Tree : outcome[n] \in NodeErrors \/ readRes[n] = "fail"}

\* Errors some task has sent on the errors channel of the current walk.
Published == IF cur = 0 THEN <<>> ELSE errorSink \o errorCh[cur]

\* No exclusion and no failure so far.
Plain ==
    \A n \in Tree : /\ outcome[n] \in {"none", "accepted"}
                    /\ readRes[n] # "fail"

\* C1.  Completeness: when Wait() has returned from an uncancelled walk in
\* which nothing was excluded and nothing failed, every directory of the tree
\* was listed and the visit callback was called exactly once with every node
\* of the tree, the root included, and with nothing else.
C1_Completeness ==
    (Completed /\ Plain) =>
        /\ \A n \in Tree : Count(visited, n) = 1
        /\ Len(visited) = Cardinality(Tree)
        /\ \A n \in Tree : isDir[n] => readRes[n] = "ok"

\* A completed plain walk of a tree with a directory below the root.
C1_Witness ==
    /\ Completed /\ Plain
    /\ Cardinality(Tree) >= 3
    /\ \E n \in Tree : parent[n] # 0 /\ parent[parent[n]] # 0

\* C2.  Error reporting, as stated: once Wait() has returned from an
\* uncancelled walk in which some task published an error, HadErrors() is
\* true.
C2_ErrorsReported ==
    (Completed /\ Published # <<>>) => HadErrors

\* C3.  Root handling, as stated: when the root can be stat-ed and the walk
\* is not cancelled, the root has been passed to the visit callback by the
\* time Wait() returns, whatever the excluders answer.
C3_RootAlwaysVisited ==
    Completed => \A r \in Roots : Count(visited, r) = 1

\* C3.  Root handling, as the code has it: the root goes through the excluder
\* of its kind like every node.  It is visited exactly once by the time Wait()
\* returns from an uncancelled walk when the excluder answers (false, nil);
\* when the excluder matches or fails, the root is never visited and nothing
\* below it is discovered.
C3_RootSubjectToExcluders ==
    \A r \in Roots :
        /\ (Completed /\ outcome[r] = "accepted") => Count(visited, r) = 1
        /\ outcome[r] \in {"excluded", "matchErr"}
               => Count(visited, r) = 0 /\ Tree = {r}

\* A completed walk whose root the excluder matched: nothing was visited.
C3_Witness ==
    /\ Completed
    /\ \E r \in Roots : outcome[r] = "excluded"
    /\ visited = <<>>

\* No step of a task or of the monitor can be taken.
TasksQuiet ==
    ~ENABLED ((\E n \in Nodes : Task(n)) \/ (\E g \in Walks : Monitor(g)))

\* C4.  After cancellation, as stated: once the walk is cancelled and the
\* consumer loop has stopped, the tasks do not come to rest before all of
\* them have exited, the counter is zero and the results channel is closed.
C4_TasksExitAfterCancel ==
    (cur # 0 /\ ctxDone[cur] /\ consumer[cur] = "done" /\ TasksQuiet) =>
        /\ Live = {}
        /\ wg = 0
        /\ pathInfoCh[cur].closed

\* Directories other than the root that the directory excluder matched.
ExcludedDirs ==
    {d \in Tree : parent[d] # 0 /\ isDir[d] /\ outcome[d] = "excluded"}

\* C5.  Directory exclusion: a directory other than the root that the
\* excluder matched is never visited and never listed, so no path under it
\* is discovered or visited; and when Wait() has returned from an
\* uncancelled walk every discovered node that was neither excluded nor
\* failed itself has been visited exactly once.
C5_DirExclusion ==
    /\ \A d \in ExcludedDirs :
           /\ Count(visited, d) = 0
           /\ readRes[d] = "none"
           /\ \A c \in Tree : parent[c] # d
    /\ Completed =>
           \A n \in Tree : outcome[n] = "accepted" => Count(visited, n) = 1

\* A completed walk with an excluded directory and a visited sibling of it.
C5_Witness ==
    /\ Completed
    /\ \E d \in ExcludedDirs : \E s \in Tree :
           /\ s # d /\ parent[s] = parent[d]
           /\ Count(visited, s) = 1

\* C6.  Cancellation: once the walk's context is cancelled the done signal
\* fires, whether or not any task takes another step.
C6_CancelFiresDone ==
    (cur # 0 /\ ctxDone[cur]) ~> (cur # 0 /\ doneCh[cur] = "closed")

\* Wait() has returned from a cancelled walk while tasks are outstanding and
\* part of the tree is still unvisited.
C6_Witness ==
    /\ WaitReturns
    /\ ctxDone[cur]
    /\ wg > 0
    /\ \E n \in Tree : pc[n] \in {"start", "publish", "readdir"}

\* C7.  Re-entrancy guard: a StartWalking call made while inProgress is true
\* returns the error of line 83 and leaves alone the root, the callback, the
\* flags, the channels, the counter and every goroutine of the walk.
C7_BusyStartChangesNothing ==
    [][(inProgress /\ StartWalking(TRUE, TRUE, TRUE, 1, {})) =>
           /\ lastResult' = "errBusy"
           /\ UNCHANGED <<engine, ctxDone, nodeVars, monitor, consumer,
                          visited, visitErr, errorSink, panic>>]_vars

\* A walk that was called into while busy and went on visiting.
C7_Witness ==
    /\ lastResult = "errBusy"
    /\ WaitReturns
    /\ Len(visited) >= 2

\* C8.  Termination: a started walk fires the done signal, and unless it was
\* cancelled it has by then seen every task return and the results channel
\* closed, however many nodes were excluded or failed.
C8_Termination ==
    (cur # 0 /\ doneCh[cur] = "open") ~>
        (/\ cur # 0
         /\ doneCh[cur] = "closed"
         /\ (ctxDone[cur] \/ (wg = 0 /\ pathInfoCh[cur].closed)))

\* A completed walk in which more errors were published than errorCh holds.
C8_Witness ==
    /\ Completed
    /\ pathInfoCh[cur].closed
    /\ Len(Published) > ErrorChCap

\* C9.  Error isolation: when Wait() has returned from an uncancelled walk,
\* every discovered node ran its task, every node that was neither excluded
\* nor failed to resolve was visited exactly once, and so were the listed
\* directories' children, whatever failed elsewhere.
C9_ErrorIsolation ==
    Completed =>
        \A n \in Tree :
            /\ outcome[n] # "none"
            /\ outcome[n] = "accepted" =>
                   /\ Count(visited, n) = 1
                   /\ isDir[n] => readRes[n] # "none"

\* A completed walk with a failing node whose sibling was visited.
C9_Witness ==
    /\ Completed
    /\ \E f \in Failing : \E s \in Tree \ Failing :
           /\ s # f /\ parent[s] = parent[f] /\ parent[f] # 0
           /\ Count(visited, s) = 1

\* C10.  WalkError invariant, as stated: a node that produced an error of
\* any of the three kinds is never passed to the visit callback.
C10_FailingNeverVisited ==
    \A n \in Failing : Count(visited, n) = 0

\* C10.  WalkError invariant, as the code has it: a node whose Info() or
\* excluder failed is never published, visited or listed.  A directory whose
\* listing failed was published before it was opened.
C10_UnresolvedNeverVisited ==
    \A n \in Tree :
        /\ outcome[n] \in NodeErrors =>
               /\ Count(visited, n) = 0
               /\ \A i \in 1..Len(pathInfoCh[cur].buf) :
                      pathInfoCh[cur].buf[i] # n
               /\ readRes[n] = "none"
        /\ readRes[n] = "fail" => outcome[n] = "accepted"

\* A node whose Info() failed: its error was written, it was not visited.
C10_Witness ==
    /\ Completed
    /\ \E n \in Tree : /\ outcome[n] = "infoFail"
                       /\ Count(errorSink, n) = 1
                       /\ Count(visited, n) = 0

C12_CausalOrdering ==
    \A i \in 1..Len(visited) :
        (visited[i] \in Tree /\ parent[visited[i]] # 0) =>
            \E j \in 1..(i - 1) : visited[j] = parent[visited[i]]

\* Two children of one directory, visited against the order of the listing.
C12_Witness ==
    \E i \in 1..Len(visited) : \E j \in (i + 1)..Len(visited) :
        /\ parent[visited[i]] = parent[visited[j]]
        /\ parent[visited[i]] # 0
        /\ visited[i] > visited[j]
        /\ \E k \in 1..(i - 1) : visited[k] = parent[visited[i]]

\* Tasks between the send of line 252 and the receive of line 253 on the
\* semaphore of slot g: they are inside os.Open, ReadDir and Close.
Readers(g) == {n \in Nodes : pc[n] = "reading" /\ bound[n] = g}

\* C13.  Semaphore bound: for the semaphore of every walk, the tasks inside
\* a directory read are as many as the slots taken, and never more than the
\* capacity the semaphore was made with at the start of the walk.
C13_SemaphoreBound ==
    \A g \in Walks :
        /\ Cardinality(Readers(g)) = workerSemaCh[g].held
        /\ Cardinality(Readers(g)) <= workerSemaCh[g].cap
        /\ workerSemaCh[g].cap <= Min(MaxWorkers, MaxRlimitCur)

\* Every slot is taken and another directory waits for one.
C13_Witness ==
    /\ cur # 0
    /\ SemaFull(cur)
    /\ Readers(cur) # {}
    /\ \E m \in Tree : pc[m] = "readdir"

\* Nodes an excluder matched.
Excluded == {n \in Tree : outcome[n] = "excluded"}

\* C14.  Exclusion is not an error: as long as no node of an uncancelled
\* walk failed, nothing is sent on errorCh, and when Wait() has returned
\* HadErrors() is false and the error sink is empty, whatever was excluded.
C14_ExclusionIsNoError ==
    (Uncancelled /\ Failing = {}) =>
        /\ Published = <<>>
        /\ Completed => (~HadErrors /\ errorSink = <<>>)

\* A completed walk without failures that excluded a directory and a file.
C14_Witness ==
    /\ Completed
    /\ Failing = {}
    /\ ~HadErrors
    /\ \E d \in Excluded : isDir[d]
    /\ \E f \in Excluded : ~isDir[f]
    /\ visited # <<>>

StartErrors == {"errBusy", "errStat", "errRlimit"}

\* A call of StartWalking that returns an error.
FailedStartCall ==
    /\ lastResult' \in StartErrors
    /\ \E statOk \in BOOLEAN, rlimitOk \in BOOLEAN :
           StartWalking(statOk, TRUE, rlimitOk, 1, {})

\* C15.  Synchronous start failure: a StartWalking call that returns an
\* error starts no task, no monitor and no consumer, makes no channel (so
\* there is no done channel to return), and leaves the record of the visit
\* callback's calls alone.
C15_FailedStartSpawnsNothing ==
    [][FailedStartCall =>
           UNCHANGED <<cur, workerSemaCh, pathInfoCh, errorCh, doneCh, wg,
                       ctxDone, nodeVars, monitor, consumer, visited,
                       visitErr, errorSink, panic>>]_vars

\* StartWalking failed on os.Lstat or Getrlimit: no goroutine, no channel.
C15_Witness ==
    /\ lastResult \in {"errStat", "errRlimit"}
    /\ cur = 0
    /\ \A g \in Walks : /\ monitor[g] = "none" /\ consumer[g] = "none"
                        /\ doneCh[g] = "nil"
    /\ \A n \in Nodes : pc[n] = "none"
    /\ visited = <<>>

\* C16.  Re-use after completion, as stated: a StartWalking call made when
\* Wait() has returned does not return the error of line 83.
C16_StartAfterWaitNotBusy ==
    [][(WaitReturns /\ StartWalking(TRUE, TRUE, TRUE, 1, {})) =>
           lastResult' # "errBusy"]_vars

\* C17.  Visitor error is discarded: the step in which the visit callback
\* returns a non-nil error changes neither the flag, nor the error sink, nor
\* the walk's context, leaves the consumer in its loop with the rest of the
\* channel, and takes no task's or monitor's step away; and when Wait() has
\* returned from an uncancelled walk in which the callback returned an
\* error, every accepted node has still been visited and the flag tells
\* only what the error sink tells.
C17_VisitorErrorDiscarded ==
    /\ [][(cur # 0 /\ visited' # visited /\ ProcessPath(cur, TRUE)) =>
              /\ UNCHANGED <<hadErrors, errorSink, errorCh, ctxDone, consumer,
                             monitor, nodeVars, wg, inProgress, doneCh>>
              /\ pathInfoCh'[cur].buf = Tail(pathInfoCh[cur].buf)]_vars
    /\ [](visitErr =>
              /\ HadErrors <=> errorSink # <<>>
              /\ Completed =>
                     \A n \in Tree :
                         outcome[n] = "accepted" => Count(visited, n) = 1)

\* A completed walk in which the callback returned an error: every node of
\* a tree of three was visited and HadErrors() is false.
C17_Witness ==
    /\ Completed
    /\ visitErr
    /\ ~HadErrors
    /\ errorSink = <<>>
    /\ Len(visited) >= 3

\* Nodes whose excluder returned an error.
MatchFailed == {n \in Tree : outcome[n] = "matchErr"}

\* C18.  Predicate failure: a node whose excluder returned an error is
\* never sent on pathInfoCh and never visited, is never listed, so that
\* nothing below it is discovered or visited; its task sends no error
\* before it returns and has sent exactly one when it has returned, which
\* it has when Wait() has returned from an uncancelled walk.
C18_PredicateFailure ==
    \A n \in MatchFailed :
        /\ Count(visited, n) = 0
        /\ Count(pathInfoCh[cur].buf, n) = 0
        /\ readRes[n] = "none"
        /\ \A c \in Tree : parent[c] # n
        /\ Count(Published, n) = IF pc[n] = "done" THEN 1 ELSE 0
        /\ Completed => pc[n] = "done"

\* A completed walk with a directory whose excluder failed: one error was
\* sent for it, and its sibling was visited.
C18_Witness ==
    /\ Completed
    /\ \E d \in MatchFailed :
           /\ isDir[d] /\ parent[d] # 0
           /\ Count(Published, d) = 1
           /\ \E s \in Tree : /\ s # d /\ parent[s] = parent[d]
                              /\ Count(visited, s) = 1

\* C19.  Flag and sink agree: in every state HadErrors() is true exactly
\* when an error line has been written since the walk started; and every
\* receipt from errorCh writes the line of the received error and sets the
\* flag in the same step, one line per receipt.
C19_FlagAndSinkAgree ==
    /\ [](HadErrors <=> errorSink # <<>>)
    /\ [][(cur # 0 /\ cur' = cur
              /\ Len(errorCh'[cur]) < Len(errorCh[cur])) =>
              /\ errorSink' = Append(errorSink, Head(errorCh[cur]))
              /\ errorCh'[cur] = Tail(errorCh[cur])
              /\ HadErrors']_vars
    /\ [][(errorSink' # errorSink /\ errorSink' # <<>>) =>
              (cur # 0 /\ cur' = cur
                  /\ Len(errorCh'[cur]) < Len(errorCh[cur]))]_vars

\* Two errors were received: two lines, and the flag is set.
C19_Witness ==
    /\ cur # 0
    /\ HadErrors
    /\ Len(errorSink) = 2
    /\ errorSink[1] # errorSink[2]

\* The processes that hold the lock: AcquireLockfile returned a Lockfile
\* without an error and the process has not called Release on a Lockfile
\* of its own since.
Holders == {p \in Procs : holds[p]}

\* C20. Lock file mutual exclusion: whatever AcquireLockfile and Release
\* calls the processes make on the path, repeated Release calls on a
\* Lockfile obtained earlier included, at most one process holds the lock
\* at a time, and while a process holds it no step of another process
\* removes the lock file.
C20_LockMutualExclusion ==
    /\ [](Cardinality(Holders) <= 1)
    /\ [][\A q \in Holders :
              (holds'[q] /\ fileCreator # 0) => fileCreator' # 0]_vars

InputSeq == [k \in 1..produced |-> k]

\* What outs[o] has yielded and what it still holds for its consumer.
Yield(o) == received[o] \o outs[o].buf

\* C22. Fan-out delivery: every output channel yields the values of the
\* input in the input order, none twice and none out of place; when the
\* context was never cancelled and DuplicateOutputs has returned, the input
\* is closed and every output channel has yielded the whole input sequence.
C22_FanoutDelivery ==
    \A o \in Outs :
        /\ Len(Yield(o)) <= produced
        /\ \A k \in 1..Len(Yield(o)) : Yield(o)[k] = InputSeq[k]
        /\ (~ctxCancelled /\ dup.at = "done") =>
               (in.closed /\ Yield(o) = InputSeq)

\* The whole input went through a buffered and an unbuffered out and both
\* consumers have it.
C22_Witness ==
    /\ ~ctxCancelled
    /\ dup.at = "done"
    /\ produced = MaxItems
    /\ \A o \in Outs : received[o] = InputSeq
    /\ \E o \in Outs, u \in Outs : outs[o].cap = 0 /\ outs[u].cap > 0

\* C23. Fan-out shutdown: once the input channel is closed or the context
\* is cancelled, DuplicateOutputs closes every output channel; it never
\* closes one twice or sends on a closed one, and an output channel that is
\* closed stays closed and is sent nothing more.
C23_FanoutShutdown ==
    /\ (in.closed \/ ctxCancelled) ~> (\A o \in Outs : outs[o].closed)
    /\ [](dup.at # "panic")
    /\ [][\A o \in Outs :
              outs[o].closed =>
                  /\ outs'[o].closed
                  /\ Len(received'[o]) + Len(outs'[o].buf)
                         = Len(Yield(o))]_vars

\* The context was cancelled with the input still open, after a value had
\* gone through, and every output channel is closed.
C23_Witness ==
    /\ ctxCancelled
    /\ ~in.closed
    /\ dup.at = "done"
    /\ \A o \in Outs : outs[o].closed /\ received[o] # <<>>

\* Tasks of an earlier walk that were still outstanding when the current
\* walk was started.
Stale == {n \in Nodes : walkOf[n] # 0 /\ walkOf[n] # cur}

\* C24. Stale tasks do not leak into a later walk: nothing panics (no
\* negative counter, no send on or second close of a closed channel), no
\* node of an earlier walk is in the current walk's channels, among the
\* nodes visited or in the error sink, the results channel of the current
\* walk is not closed while one of its own tasks is outstanding, and a
\* completed uncancelled walk has visited every accepted node of its own
\* tree once.
C24_StaleTasksDoNotLeak ==
    /\ panic = "none"
    /\ cur # 0 =>
           /\ \A n \in Stale :
                  /\ Count(pathInfoCh[cur].buf, n) = 0
                  /\ Count(errorCh[cur], n) = 0
                  /\ Count(visited, n) = 0
                  /\ Count(errorSink, n) = 0
           /\ pathInfoCh[cur].closed =>
                  \A n \in Tree : pc[n] = "done"
           /\ (WaitReturns /\ ~ctxDone[cur]) =>
                  \A n \in Tree :
                      outcome[n] = "accepted" => Count(visited, n) = 1

\* C25. Failed start leaves the engine idle: a StartWalking call that fails
\* on os.Lstat or on Getrlimit leaves the in-progress guard false and the
\* HadErrors flag as it was, and the StartWalking call that follows a
\* failed one succeeds on a root that can be stat-ed.
C25_FailedStartLeavesIdle ==
    /\ [][FailedStartCall => (~inProgress' /\ hadErrors' = hadErrors)]_vars
    /\ [][(lastResult \in StartErrors
               /\ StartWalking(TRUE, TRUE, TRUE, 1, {})) =>
              lastResult' = "ok"]_vars

\* Tasks of the current walk that were spawned and have not exited.
Outstanding == {n \in Tree : pc[n] \notin {"none", "done"}}

\* C26. Completion protocol: in a single uncancelled walk the counter
\* equals the number of tasks spawned and not yet exited; the monitor is
\* past wg.Wait() only when the counter is zero; the results channel is
\* closed only when the counter is zero, it is closed once (no panic), and
\* nothing is sent on it after it is closed.
C26_CompletionProtocol ==
    /\ [](Uncancelled =>
              /\ panic = "none"
              /\ wg = Cardinality(Outstanding)
              /\ monitor[cur] \in {"close", "done"} => wg = 0
              /\ pathInfoCh[cur].closed =>
                     (wg = 0 /\ monitor[cur] = "done"))
    /\ [][(Uncancelled /\ pathInfoCh[cur].closed /\ cur' = cur) =>
              /\ pathInfoCh'[cur].closed
              /\ Len(pathInfoCh'[cur].buf) <= Len(pathInfoCh[cur].buf)]_vars

\* The channel is closed with the counter at zero after three tasks have
\* exited, one of them on a failed directory read and one on an exclusion.
C26_Witness ==
    /\ Uncancelled
    /\ wg = 0
    /\ pathInfoCh[cur].closed
    /\ Cardinality({n \in Tree : pc[n] = "done"}) >= 3
    /\ \E n \in Tree : readRes[n] = "fail"
    /\ \E n \in Tree : outcome[n] = "excluded"

\* The walks whose consumer loop is running.
Running == {g \in Walks : consumer[g] \in {"loop", "signal"}}

\* C27. Of the StartWalking calls made concurrently on an idle engine at
\* most one succeeds: there is never more than one consumer loop running,
\* and no call returns success while a consumer loop is running.
C27_ConcurrentStarts ==
    /\ [](Cardinality(Running) <= 1)
    /\ [][(walkFunc' # walkFunc /\ lastResult' = "ok") => Running = {}]_vars

\* The tasks of walk g that wait to send on one of its channels.
Publishing(g) ==
    {n \in Nodes : walkOf[n] = g /\ pc[n] \in {"publish", "senderr"}}

\* C28. Semaphore slots are never leaked: a directory read gives its slot
\* back whether it succeeded or failed; the slots held are those of the
\* reads in flight, so a task that waits to publish holds none; and no
\* slot is held once every task of the walk has exited.
C28_SlotsNeverLeaked ==
    /\ [][\A n \in Nodes :
              (pc[n] = "reading" /\ pc'[n] # "reading") =>
                  /\ pc'[n] \in {"done", "senderr"}
                  /\ workerSemaCh'[bound[n]].held =
                         workerSemaCh[bound[n]].held - 1]_vars
    /\ [](\A g \in Walks :
              /\ workerSemaCh[g].held = Cardinality(Readers(g))
              /\ (\A n \in Nodes : walkOf[n] = g =>
                      (n \in Publishing(g) \/ pc[n] = "done")) =>
                     workerSemaCh[g].held = 0)

\* Every task of the walk has exited, more directories failed to read than
\* the semaphore has slots, and no slot is held.
C28_Witness ==
    /\ cur # 0
    /\ \A n \in Tree : pc[n] = "done"
    /\ Cardinality({n \in Tree : readRes[n] = "fail"}) > workerSemaCh[cur].cap
    /\ workerSemaCh[cur].held = 0

\* The tasks of the current walk that met an error of their node.
Erred ==
    {n \in Tree : outcome[n] \in NodeErrors \/ readRes[n] = "fail"}

\* C29. HadErrors is per walk: a StartWalking that succeeds leaves the flag
\* false, and when Wait returns for a walk none of whose nodes met an error
\* HadErrors is false, also when the walk before on the same engine ran to
\* its end and recorded errors.
C29_HadErrorsPerWalk ==
    /\ [][(walkFunc' # walkFunc /\ lastResult' = "ok") => ~hadErrors']_vars
    /\ []((/\ WaitReturns
           /\ \A g \in Walks \ {cur} : ~ctxDone[g]
           /\ Erred = {}) => ~HadErrors)

\* The second walk on the engine started when the flag was true, none of
\* its nodes met an error, Wait returned and HadErrors is false.
C29_Witness ==
    /\ walkFunc = 2
    /\ hadErrorsBefore
    /\ lastResult = "ok"
    /\ WaitReturns
    /\ \A g \in Walks : ~ctxDone[g]
    /\ Erred = {}
    /\ visited # <<>>
    /\ ~HadErrors

\* What the excluder of the node's own kind answers for its path.
OwnKind(n) == IF isDir[n] THEN matches[n].dir ELSE matches[n].file

\* C30. Predicate dispatch: what a task decides follows the answer of the
\* directory excluder when its node is a directory and that of the file
\* excluder otherwise, whatever the other excluder answers for the path; a
\* directory that only the file excluder matches is published and read, and
\* a file that only the directory excluder matches is published.
C30_PredicateDispatch ==
    \A n \in Tree :
        /\ matches[n] = NoAnswer =>
               outcome[n] \in {"none", "infoFail"}
        /\ matches[n] # NoAnswer =>
               /\ outcome[n] = "accepted" <=> OwnKind(n) = "no"
               /\ outcome[n] = "excluded" <=> OwnKind(n) = "yes"
               /\ outcome[n] = "matchErr" <=> OwnKind(n) = "err"
               /\ (isDir[n] /\ matches[n].dir = "no" /\ pc[n] = "done") =>
                      readRes[n] # "none"
               /\ (OwnKind(n) = "no" /\ Completed) => Count(visited, n) = 1

\* A completed walk visited a directory that the file excluder matches and,
\* below it, a file that the directory excluder matches.
C30_Witness ==
    /\ Completed
    /\ \E d \in Tree, f \in Tree :
           /\ isDir[d] /\ matches[d] = [dir |-> "no", file |-> "yes"]
           /\ parent[f] = d
           /\ ~isDir[f] /\ matches[f] = [dir |-> "yes", file |-> "no"]
           /\ Count(visited, d) = 1 /\ Count(visited, f) = 1

====
